---- MODULE Spec2Model ----
(***************************************************************************)
(* poddle: the `create` command of the podcast generator.                  *)
(* One run of the command handler is modelled as a state machine whose     *)
(* steps are the handler's synchronous stretches between awaits; responses *)
(* of the speech service arrive only while the handler is suspended.       *)
(*                                                                         *)
(* Strings the program takes apart (speaker names) are sequences of        *)
(* one-character strings.  Phrase texts are opaque tokens <<word, n>>.     *)
(* A path is a sequence of components <<name, n>>; uuid-named files are    *)
(* <<"ogg", n>> and <<"txt", n>> with n the n-th uuid drawn in the run.    *)
(***************************************************************************)
EXTENDS Integers, Sequences, FiniteSets, TLC

\* ---------------------------------------------------------------- bounds
MaxPairs == 3
MaxLongPairs == 8
RandomGrain == 3
MaxVoicePairs == 1
MaxFaults == 1

\* ------------------------------------------------------------- constants
POLLY_PRESETS ==
  [OutputFormat |-> "ogg_vorbis", TextType |-> "ssml",
   Engine |-> "neural", SampleRate |-> "24000"]

POLLY_VOICES ==
  ("en-US" :> <<<<"I","v","y">>,
                <<"J","o","a","n","n","a">>,
                <<"K","e","n","d","r","a">>,
                <<"K","i","m","b","e","r","l","y">>,
                <<"S","a","l","l","i">>,
                <<"J","o","e","y">>,
                <<"J","u","s","t","i","n">>,
                <<"K","e","v","i","n">>,
                <<"M","a","t","t","h","e","w">>,
                <<"R","u","t","h">>,
                <<"S","t","e","p","h","e","n">>>>) @@
  ("fr-FR" :> <<<<"L","e","a">>,
                <<"R","e","m","i">>>>) @@
  ("de-DE" :> <<<<"V","i","c","k","i">>,
                <<"D","a","n","i","e","l">>>>) @@
  ("it-IT" :> <<<<"B","i","a","n","c","a">>,
                <<"A","d","r","i","a","n","o">>>>) @@
  ("ja-JP" :> <<<<"T","a","k","u","m","i">>,
                <<"K","a","z","u","h","a">>,
                <<"T","o","m","o","k","o">>>>) @@
  ("ko-KR" :> <<<<"S","e","o","y","e","o","n">>>>) @@
  ("pt-BR" :> <<<<"C","a","m","i","l","a">>,
                <<"V","i","t","o","r","i","a">>,
                <<"T","h","i","a","g","o">>>>) @@
  ("es-ES" :> <<<<"L","u","c","i","a">>,
                <<"S","e","r","g","i","o">>>>) @@
  ("es-MX" :> <<<<"M","i","a">>,
                <<"A","n","d","r","e","s">>>>) @@
  ("es-US" :> <<<<"L","u","p","e">>,
                <<"P","e","d","r","o">>>>) @@
  ("yue-CN" :> <<<<"H","i","u","j","i","n">>>>) @@
  ("cmn-CN" :> <<<<"Z","h","i","y","u">>>>)

DEFAULT_HOST_LANG == "en-US"

QUIZ_INTRO == <<"Now it's time for a quiz! Say the following phrases in Spanish:", 0>>

\* the loop pauses when i % PACE_EVERY = PACE_AT
PACE_EVERY == 8
PACE_AT == 7
QUIZ_MAX == 7

\* JavaScript undefined, for a speaker name and for a language tag
Undefined == <<"undefined">>
NoLang == "undefined"
TypeError == <<"TypeError">>

Truthy(str) == str # Undefined /\ str # <<>>

\* ------------------------------------------------------------ pascalCase
LowerCase ==
  <<"a","b","c","d","e","f","g","h","i","j","k","l","m",
    "n","o","p","q","r","s","t","u","v","w","x","y","z">>
UpperCase ==
  <<"A","B","C","D","E","F","G","H","I","J","K","L","M",
    "N","O","P","Q","R","S","T","U","V","W","X","Y","Z">>

toUpperCase(c) ==
  IF \E k \in 1..Len(LowerCase) : LowerCase[k] = c
  THEN UpperCase[CHOOSE k \in 1..Len(LowerCase) : LowerCase[k] = c]
  ELSE c

RECURSIVE split(_)
split(str) ==
  IF \E k \in 1..Len(str) : str[k] = " "
  THEN LET k == CHOOSE n \in 1..Len(str) :
                  str[n] = " " /\ \A m \in 1..(n-1) : str[m] # " "
       IN <<SubSeq(str, 1, k-1)>> \o split(SubSeq(str, k+1, Len(str)))
  ELSE <<str>>

RECURSIVE join(_)
join(words) ==
  IF Len(words) = 1 THEN words[1]
  ELSE words[1] \o <<" ">> \o join(Tail(words))

capitalize(word) == <<toUpperCase(word[1])>> \o Tail(word)

\* word[0] of an empty word is undefined and .toUpperCase() on it throws
pascalCase(str) ==
  LET words == split(str) IN
  IF \E k \in 1..Len(words) : words[k] = <<>> THEN TypeError
  ELSE join([k \in 1..Len(words) |-> capitalize(words[k])])

\* ----------------------------------------------------------------- paths
SilenceName == <<"silence.ogg", 0>>
ScratchDir == <<"sound-temp", 0>>
here(path) == <<<<"pkg", 0>>>> \o path
SILENCE == here(<<SilenceName>>)
UndefinedPath == <<<<"undefined", 0>>>>
clipName(id) == <<"ogg", id>>
listName(id) == <<"txt", id>>
lastSegment(path) == path[Len(path)]

\* -------------------------------------------------------- phrase entries
SetOf(n) == [k \in 1..n |-> << <<"es", k>>, <<"en", k>> >>]

RECURSIVE pushPairs(_, _)
pushPairs(phr, set) ==
  IF set = <<>> THEN phr
  ELSE pushPairs(phr \o << <<FALSE, set[1][1]>>, <<TRUE, set[1][2]>> >>,
                 Tail(set))

phrasesOf(title, set) ==
  pushPairs(<< <<TRUE, title>>, <<TRUE, QUIZ_INTRO>> >>, set)

hostKey(hostLang) == IF hostLang = NoLang THEN DEFAULT_HOST_LANG ELSE hostLang

voicesOf(lang) ==
  IF lang \in DOMAIN POLLY_VOICES THEN POLLY_VOICES[lang] ELSE <<>>

includes(list, x) == \E k \in 1..Len(list) : list[k] = x

\* Text: host phrases are spoken normally with two breaks, learning phrases
\* at prosody rate x-slow with one break
paramsOf(phrase, opts, pod) ==
  LET isHostLang == phrase[1]
      text == phrase[2]
  IN [OutputFormat |-> POLLY_PRESETS.OutputFormat,
      TextType |-> POLLY_PRESETS.TextType,
      Engine |-> POLLY_PRESETS.Engine,
      SampleRate |-> POLLY_PRESETS.SampleRate,
      VoiceId |-> IF isHostLang
                  THEN (IF opts.host # Undefined THEN opts.host
                        ELSE voicesOf(hostKey(pod.hostLang))[1])
                  ELSE (IF opts.guest # Undefined THEN opts.guest
                        ELSE voicesOf(pod.lang)[1]),
      LanguageCode |-> IF isHostLang THEN hostKey(pod.hostLang) ELSE pod.lang,
      Text |-> IF isHostLang
               THEN [prosody |-> "default", text |-> text, breaks |-> 2]
               ELSE [prosody |-> "x-slow", text |-> text, breaks |-> 1]]

\* --------------------------------------------------- speaker validation
\* "ok", "exit" (process.exit(1)) or "throw" (TypeError on a missing table)
hostCheck(opts, pod) ==
  IF ~Truthy(opts.host) THEN "ok"
  ELSE IF hostKey(pod.hostLang) \notin DOMAIN POLLY_VOICES THEN "throw"
  ELSE IF ~includes(POLLY_VOICES[hostKey(pod.hostLang)], opts.host) THEN "exit"
  ELSE "ok"

guestCheck(opts, pod) ==
  IF ~Truthy(opts.guest) THEN "ok"
  ELSE IF pod.lang \notin DOMAIN POLLY_VOICES THEN "throw"
  ELSE IF ~includes(POLLY_VOICES[pod.lang], opts.guest) THEN "exit"
  ELSE "ok"

validateHostOnly(opts, pod) == hostCheck(opts, pod)

validateBothWrong(opts, pod) ==
  IF hostCheck(opts, pod) # "ok" /\ guestCheck(opts, pod) # "ok"
  THEN hostCheck(opts, pod)
  ELSE "ok"

validate(opts, pod) ==
  IF hostCheck(opts, pod) # "ok" THEN hostCheck(opts, pod)
  ELSE guestCheck(opts, pod)

\* ---------------------------------------------------------------- pacing
needsPauseAfterEighth(i) == i > 0 /\ i % PACE_EVERY = 0
needsPauseFromStart(i) == i % PACE_EVERY = 0

needsPause(i) == i % PACE_EVERY = PACE_AT

\* ------------------------------------------------------ speech responses
\* the service's audio for a request: opaque bytes, told apart by what was
\* asked for
synthesize(params) ==
  [voice |-> params.VoiceId, ssml |-> params.Text]

Pending == [state |-> "pending", value |-> <<>>]

thenKeepEmpty(res) ==
  IF res.AudioStream = <<>>
  THEN [state |-> "fulfilled", value |-> <<>>]
  ELSE [state |-> "fulfilled", value |-> res.AudioStream]

\* the .then callback of one request
thenAudio(res) ==
  IF res.AudioStream = <<>>
  THEN [state |-> "rejected", value |-> <<>>]
  ELSE [state |-> "fulfilled", value |-> res.AudioStream]

firstPending(reqs) ==
  CHOOSE k \in 1..Len(reqs) :
    reqs[k].state = "pending" /\ \A m \in 1..(k-1) : reqs[m].state # "pending"

settleInArrivalOrder(reqs, k, outcome) ==
  [reqs EXCEPT ![firstPending(reqs)] = outcome]

\* each promise of the requests array settles with its own call's outcome
settle(reqs, k, outcome) == [reqs EXCEPT ![k] = outcome]

anyRejected(reqs) == \E k \in 1..Len(reqs) : reqs[k].state = "rejected"
allFulfilled(reqs) == \A k \in 1..Len(reqs) : reqs[k].state = "fulfilled"

\* Promise.all: the values in the order of the requests array
promiseAll(reqs) == [k \in 1..Len(reqs) |-> reqs[k].value]

\* ------------------------------------------------------------- stitching
pairAt(pair, n) == IF Len(pair) >= n THEN pair[n] ELSE UndefinedPath

reduceStep(a, b, c) ==
  IF c % 2 = 1
  THEN LET d == IF a = <<>> THEN <<>> ELSE a[Len(a)]
           front == IF a = <<>> THEN <<>> ELSE SubSeq(a, 1, Len(a) - 1)
       IN Append(front, <<pairAt(d, 1), b>>)
  ELSE Append(a, <<b>>)

RECURSIVE reduceFrom(_, _, _)
reduceFrom(paths, c, a) ==
  IF c = Len(paths) THEN a
  ELSE reduceFrom(paths, c + 1, reduceStep(a, paths[c + 1], c))

clipPairsShifted(paths) ==
  IF paths = <<>> THEN <<>> ELSE reduceFrom(Tail(paths), 0, <<>>)

clipPairsOf(paths) == reduceFrom(paths, 0, <<>>)

swapNoTemp(arr, i, j) == [arr EXCEPT ![i + 1] = arr[j + 1]]

\* one iteration of the Fisher-Yates loop, i and j 0-based
swap(arr, i, j) == [arr EXCEPT ![i + 1] = arr[j + 1], ![j + 1] = arr[i + 1]]

drillBlockFluentFirstTwice(pair) ==
  LET es == pairAt(pair, 1)
      en == pairAt(pair, 2)
  IN <<en, en, es, en, es, es, SILENCE>>

drillBlock(pair) ==
  LET es == pairAt(pair, 1)
      en == pairAt(pair, 2)
  IN <<en, es, es, en, es, es, SILENCE>>

quizBlock(pair) ==
  LET es == pairAt(pair, 1)
      en == pairAt(pair, 2)
  IN <<en, SILENCE, SILENCE, es, SILENCE>>

sliceAll(arr) == arr

quizSlice(arr) ==
  IF Len(arr) > QUIZ_MAX THEN SubSeq(arr, 1, QUIZ_MAX) ELSE arr

RECURSIVE drillBlocks(_)
drillBlocks(pairs) ==
  IF pairs = <<>> THEN <<>>
  ELSE drillBlock(pairs[1]) \o drillBlocks(Tail(pairs))

RECURSIVE quizBlocks(_)
quizBlocks(pairs) ==
  IF pairs = <<>> THEN <<>>
  ELSE quizBlock(pairs[1]) \o quizBlocks(Tail(pairs))

fileLine(path) == <<"file", lastSegment(path)>>

fileListOf(title, quiz, pairs, shuffled) ==
  LET paths == <<title, SILENCE>> \o drillBlocks(pairs)
               \o <<quiz, SILENCE>> \o quizBlocks(quizSlice(shuffled))
  IN [k \in 1..Len(paths) |-> fileLine(paths[k])]

\* ----------------------------------------------------------------- state
VARIABLES
  podFile,    \* the JSON document named by <file>
  polly,      \* how the speech service orders its responses: "any" | "fifo"
  argv,       \* [host, guest] as typed on the command line
  options,    \* the handler's options object: converted, then resolved
  podData,    \* the document once read
  opened,     \* the voice list url was opened in a browser
  pc,         \* where the handler is suspended or about to run
  scratch,    \* sound-temp: file name -> content
  phrases, i, \* the phrase entries and the request loop's index (0-based)
  requests,   \* the promises pushed so far
  inflight,   \* 1-based positions of the calls the service has not answered
  sent,       \* the parameters of every SynthesizeSpeechCommand sent
  pauses,     \* for every pacing pause, the loop index it was taken at
  faults,     \* how many responses came without an audio stream
  overtaken,  \* some response arrived before that of an earlier call
  clips, clipPaths, titlePath, quizPath, clipPairs,
  array, si,  \* shuffle's working copy and its loop index
  fileList, listFile,
  uuids,      \* how many uuids were drawn
  execCalls,  \* how many times ffmpeg was started
  stdout, stderr, exitCode,
  trace       \* the pipeline steps completed, in order

env == <<podFile, argv, polly>>
voiceVars == <<options, podData, opened>>
reqVars == <<phrases, i, requests, inflight, sent, pauses, faults,
            overtaken>>
clipVars == <<clips, clipPaths, titlePath, quizPath, clipPairs, array, si>>
outVars == <<fileList, listFile, execCalls>>
ioVars == <<stdout, stderr, exitCode>>
vars == <<env, voiceVars, reqVars, clipVars, outVars, ioVars,
          pc, scratch, uuids, trace>>

Running == -1
NoPod == [title |-> <<"", 0>>, set |-> <<>>, lang |-> NoLang, hostLang |-> NoLang]
StaleName == clipName(0)
StaleScratch == (StaleName :> <<"stale">>) @@ (listName(0) :> <<"stale">>)
EmptyDir == [n \in {} |-> <<>>]

HostInputs ==
  {Undefined, <<>>, <<"j","o","a","n","n","a">>, <<"J","o","a","n","n","a">>,
   <<"l","e","a">>, <<"J","O","E","Y">>}
GuestInputs ==
  {Undefined, <<"J","o","a","n","n","a">>, <<"r","e","m","i">>,
   <<"S","e","o","y","e","o","n">>, <<"l","e","a"," ">>}
HostLangInputs == {NoLang, "en-US", "fr-FR", "tlh"}
LangInputs == {"fr-FR", "ko-KR", "tlh"}

Start(pod, opts, discipline, dir) ==
  /\ podFile = pod
  /\ polly = discipline
  /\ argv = opts
  /\ options = opts
  /\ podData = NoPod
  /\ opened = FALSE
  /\ pc = "start"
  /\ scratch = dir
  /\ phrases = <<>> /\ i = 0
  /\ requests = <<>> /\ inflight = {} /\ sent = <<>> /\ pauses = <<>>
  /\ faults = 0 /\ overtaken = FALSE
  /\ clips = <<>> /\ clipPaths = <<>>
  /\ titlePath = UndefinedPath /\ quizPath = UndefinedPath
  /\ clipPairs = <<>> /\ array = <<>> /\ si = 0
  /\ fileList = <<>> /\ listFile = UndefinedPath
  /\ uuids = 0 /\ execCalls = 0
  /\ stdout = <<>> /\ stderr = <<>> /\ exitCode = Running
  /\ trace = <<>>

\* every combination of languages and speaker overrides, short sets
InitVoices ==
  \E n \in 0..MaxVoicePairs, lang \in LangInputs, hostLang \in HostLangInputs,
     host \in HostInputs, guest \in GuestInputs :
    Start([title |-> <<"Intro", 0>>, set |-> SetOf(n),
           lang |-> lang, hostLang |-> hostLang],
          [host |-> host, guest |-> guest], "any", StaleScratch)

\* fixed speakers, responses in any order
InitConcurrent ==
  \E n \in 0..MaxPairs, dir \in {EmptyDir, StaleScratch} :
    Start([title |-> <<"Intro", 0>>, set |-> SetOf(n),
           lang |-> "es-US", hostLang |-> "en-US"],
          [host |-> <<"M","a","t","t","h","e","w">>,
           guest |-> <<"P","e","d","r","o">>], "any", dir)

\* fixed speakers, long sets, responses in request order
InitLong ==
  \E n \in 0..MaxLongPairs :
    Start([title |-> <<"Intro", 0>>, set |-> SetOf(n),
           lang |-> "es-US", hostLang |-> "en-US"],
          [host |-> <<"M","a","t","t","h","e","w">>,
           guest |-> <<"P","e","d","r","o">>], "fifo", EmptyDir)

Init == InitVoices \/ InitConcurrent

\* --------------------------------------------------------------- actions
Fail(msg) ==
  /\ pc' = "error"
  /\ stderr' = Append(stderr, msg)
  /\ exitCode' = 1
  /\ stdout' = stdout

SetupCopyThenEmpty ==
  /\ pc = "start"
  /\ scratch' = EmptyDir
  /\ trace' = Append(trace, "cleared")
  /\ pc' = "load"
  /\ UNCHANGED <<env, voiceVars, reqVars, clipVars, outVars, ioVars, uuids>>

\* ensureDir, emptyDir, copyFile(SILENCE)
Setup ==
  /\ pc = "start"
  /\ scratch' = (SilenceName :> <<"silence">>)
  /\ trace' = Append(trace, "cleared")
  /\ pc' = "load"
  /\ UNCHANGED <<env, voiceVars, reqVars, clipVars, outVars, ioVars, uuids>>

\* readJSON
Load ==
  /\ pc = "load"
  /\ podData' = podFile
  /\ trace' = Append(trace, "loaded")
  /\ pc' = "validate"
  /\ UNCHANGED <<env, options, opened, reqVars, clipVars, outVars, ioVars,
                 scratch, uuids>>

convert(str) == IF Truthy(str) THEN pascalCase(str) ELSE str

\* pascalCase both overrides, then validate them
Validate ==
  /\ pc = "validate"
  /\ LET host == convert(options.host)
         guest == convert(options.guest)
         opts == [host |-> host, guest |-> guest]
     IN IF host = TypeError
        THEN Fail("TypeError") /\ options' = options
        ELSE IF guest = TypeError
        THEN Fail("TypeError") /\ options' = [options EXCEPT !.host = host]
        ELSE /\ options' = opts
             /\ IF validate(opts, podData) = "throw" THEN Fail("TypeError")
                ELSE IF validate(opts, podData) = "exit"
                THEN /\ pc' = "exited"
                     /\ stderr' = Append(stderr, "No speaker named")
                     /\ exitCode' = 1
                     /\ stdout' = stdout
                ELSE /\ pc' = "docs"
                     /\ UNCHANGED ioVars
  /\ UNCHANGED <<env, podData, opened, reqVars, clipVars, outVars,
                 scratch, uuids, trace>>

\* the confirm prompt, asked when a speaker is missing
AskDocs ==
  /\ pc = "docs"
  /\ IF ~Truthy(options.host) \/ ~Truthy(options.guest)
     THEN \E shouldOpen \in BOOLEAN : opened' = shouldOpen
     ELSE opened' = opened
  /\ pc' = "host"
  /\ UNCHANGED <<env, options, podData, reqVars, clipVars, outVars, ioVars,
                 scratch, uuids, trace>>

AskHost ==
  /\ pc = "host"
  /\ IF Truthy(options.host)
     THEN pc' = "guest" /\ UNCHANGED <<options, ioVars>>
     ELSE IF hostKey(podData.hostLang) \notin DOMAIN POLLY_VOICES
     THEN Fail("TypeError") /\ options' = options
     ELSE LET choices == POLLY_VOICES[hostKey(podData.hostLang)] IN
          /\ \E k \in 1..Len(choices) :
               /\ Len(choices) = 1 => k = 1
               /\ options' = [options EXCEPT !.host = choices[k]]
          /\ pc' = "guest"
          /\ UNCHANGED ioVars
  /\ UNCHANGED <<env, podData, opened, reqVars, clipVars, outVars,
                 scratch, uuids, trace>>

AskGuest ==
  /\ pc = "guest"
  /\ IF Truthy(options.guest)
     THEN pc' = "phrases" /\ UNCHANGED <<options, ioVars>>
     ELSE IF podData.lang \notin DOMAIN POLLY_VOICES
     THEN Fail("TypeError") /\ options' = options
     ELSE LET choices == POLLY_VOICES[podData.lang] IN
          /\ \E k \in 1..Len(choices) :
               /\ Len(choices) = 1 => k = 1
               /\ options' = [options EXCEPT !.guest = choices[k]]
          /\ pc' = "phrases"
          /\ UNCHANGED ioVars
  /\ UNCHANGED <<env, podData, opened, reqVars, clipVars, outVars,
                 scratch, uuids, trace>>

\* console.log, then the phrase list
Phrases ==
  /\ pc = "phrases"
  /\ stdout' = Append(stdout, "Generating audio")
  /\ phrases' = phrasesOf(podData.title, podData.set)
  /\ i' = 0
  /\ pc' = "loop"
  /\ UNCHANGED <<env, voiceVars, requests, inflight, sent, pauses, faults,
                 overtaken, clipVars,
                 outVars, stderr, exitCode, scratch, uuids, trace>>

\* polly.send(...).then(...) pushed for entry i
SendEntry ==
  /\ sent' = Append(sent, paramsOf(phrases[i + 1], options, podData))
  /\ requests' = Append(requests, Pending)
  /\ inflight' = inflight \cup {i + 1}
  /\ i' = i + 1
  /\ pc' = "loop"

Send ==
  /\ pc = "loop"
  /\ i < Len(phrases)
  /\ ~needsPause(i)
  /\ SendEntry
  /\ UNCHANGED <<env, voiceVars, phrases, pauses, faults, overtaken, clipVars,
                 outVars, ioVars,
                 scratch, uuids, trace>>

\* await new Promise((r) => setTimeout(r, 1000))
Pause ==
  /\ pc = "loop"
  /\ i < Len(phrases)
  /\ needsPause(i)
  /\ pauses' = Append(pauses, i)
  /\ pc' = "pause"
  /\ UNCHANGED <<env, voiceVars, phrases, i, requests, inflight, sent, faults,
                 overtaken, clipVars, outVars, ioVars, scratch, uuids, trace>>

\* the timer fires and the loop body goes on with entry i
Resume ==
  /\ pc = "pause"
  /\ SendEntry
  /\ UNCHANGED <<env, voiceVars, phrases, pauses, faults, overtaken, clipVars,
                 outVars, ioVars,
                 scratch, uuids, trace>>

\* the loop is over: await Promise.all(requests)
AwaitAll ==
  /\ pc = "loop"
  /\ i = Len(phrases)
  /\ IF anyRejected(requests) THEN Fail("No audio stream")
     ELSE pc' = "await" /\ UNCHANGED ioVars
  /\ UNCHANGED <<env, voiceVars, reqVars, clipVars, outVars,
                 scratch, uuids, trace>>

\* the service answers call k while the handler is suspended.  A rejection
\* during Promise.all rejects it; a rejection during a pacing pause has no
\* handler yet: the runtime either ends the process (unhandled rejection) or
\* only warns, and Promise.all rejects later.
Respond(k) ==
  /\ pc \in {"pause", "await"}
  /\ k \in inflight
  /\ polly = "fifo" => \A m \in inflight : k <= m
  /\ inflight' = inflight \ {k}
  /\ overtaken' = (overtaken \/ \E m \in inflight : m < k)
  /\ \E hasAudio \in BOOLEAN :
       /\ ~hasAudio => faults < MaxFaults
       /\ faults' = IF hasAudio THEN faults ELSE faults + 1
       /\ LET res == [AudioStream |->
                         IF hasAudio THEN <<synthesize(sent[k])>> ELSE <<>>]
              outcome == thenAudio(res)
          IN /\ requests' = settle(requests, k, outcome)
             /\ IF outcome.state = "rejected"
                THEN IF pc = "await" THEN Fail("No audio stream")
                     ELSE \E ends \in BOOLEAN :
                            IF ends THEN Fail("No audio stream")
                            ELSE UNCHANGED <<pc, ioVars>>
                ELSE UNCHANGED <<pc, ioVars>>
  /\ UNCHANGED <<env, voiceVars, phrases, i, sent, pauses, clipVars, outVars,
                 scratch, uuids, trace>>

\* Promise.all resolves
Collect ==
  /\ pc = "await"
  /\ allFulfilled(requests)
  /\ clips' = promiseAll(requests)
  /\ trace' = Append(trace, "synthesized")
  /\ pc' = "write"
  /\ UNCHANGED <<env, voiceVars, reqVars, clipPaths, titlePath, quizPath,
                 clipPairs, array, si, outVars, ioVars, scratch, uuids>>

\* one iteration of the write loop
WriteClip ==
  /\ pc = "write"
  /\ Len(clipPaths) < Len(clips)
  /\ LET id == uuids + 1
         clipPath == here(<<ScratchDir, clipName(id)>>)
     IN /\ uuids' = id
        /\ scratch' = (clipName(id) :> clips[Len(clipPaths) + 1]) @@ scratch
        /\ clipPaths' = Append(clipPaths, clipPath)
  /\ UNCHANGED <<env, voiceVars, reqVars, clips, titlePath, quizPath,
                 clipPairs, array, si, outVars, ioVars, pc, trace>>

\* the two shifts, the reduce, and shuffle's copy
Stitch ==
  /\ pc = "write"
  /\ Len(clipPaths) = Len(clips)
  /\ titlePath' = clipPaths[1]
  /\ quizPath' = clipPaths[2]
  /\ clipPaths' = SubSeq(clipPaths, 3, Len(clipPaths))
  /\ clipPairs' = clipPairsOf(clipPaths')
  /\ array' = clipPairs'
  /\ si' = Len(clipPairs') - 1
  /\ trace' = Append(trace, "persisted")
  /\ pc' = "shuffle"
  /\ UNCHANGED <<env, voiceVars, reqVars, clips, outVars, ioVars,
                 scratch, uuids>>

\* Math.random() is r / RandomGrain for some r in 0..RandomGrain-1
randomIndex(r, n) == (r * (n + 1)) \div RandomGrain

Shuffle ==
  /\ pc = "shuffle"
  /\ si > 0
  /\ \E r \in 0..(RandomGrain - 1) :
       array' = swap(array, si, randomIndex(r, si))
  /\ si' = si - 1
  /\ UNCHANGED <<env, voiceVars, reqVars, clips, clipPaths, titlePath,
                 quizPath, clipPairs, outVars, ioVars, pc, scratch, uuids,
                 trace>>

\* fileList, then writeFile(listFile, fileList)
WriteList ==
  /\ pc = "shuffle"
  /\ si <= 0
  /\ fileList' = fileListOf(titlePath, quizPath, clipPairs, array)
  /\ uuids' = uuids + 1
  /\ listFile' = here(<<ScratchDir, listName(uuids')>>)
  /\ scratch' = (listName(uuids') :> fileList') @@ scratch
  /\ array' = <<>>
  /\ trace' = Append(trace, "manifest")
  /\ pc' = "exec"
  /\ UNCHANGED <<env, voiceVars, reqVars, clips, clipPaths, titlePath,
                 quizPath, clipPairs, si, execCalls, ioVars>>

\* exec(ffmpeg ... -i listFile ... outputPath)
Exec ==
  /\ pc = "exec"
  /\ execCalls' = execCalls + 1
  /\ trace' = Append(trace, "exec")
  /\ pc' = "ffmpeg"
  /\ UNCHANGED <<env, voiceVars, reqVars, clipVars, fileList, listFile,
                 ioVars, scratch, uuids>>

afterExecIgnoringStatus(ok) == "report"

afterExec(ok) == IF ok THEN "report" ELSE "error"

\* ffmpeg exits; a non-zero status rejects the awaited exec
ExecExit ==
  /\ pc = "ffmpeg"
  /\ \E ok \in BOOLEAN :
       /\ pc' = afterExec(ok)
       /\ trace' = Append(trace, IF ok THEN "muxed" ELSE "mux failed")
       /\ IF pc' = "error"
          THEN stderr' = Append(stderr, "Command failed") /\ exitCode' = 1
          ELSE UNCHANGED <<stderr, exitCode>>
  /\ UNCHANGED <<env, voiceVars, reqVars, clipVars, outVars, stdout,
                 scratch, uuids>>

Report ==
  /\ pc = "report"
  /\ stdout' = Append(stdout, "saved")
  /\ trace' = Append(trace, "reported")
  /\ exitCode' = 0
  /\ pc' = "done"
  /\ UNCHANGED <<env, voiceVars, reqVars, clipVars, outVars, stderr,
                 scratch, uuids>>

Next ==
  \/ Setup \/ Load \/ Validate \/ AskDocs \/ AskHost \/ AskGuest \/ Phrases
  \/ Send \/ Pause \/ Resume \/ AwaitAll
  \/ \E k \in inflight : Respond(k)
  \/ Collect \/ WriteClip \/ Stitch \/ Shuffle \/ WriteList
  \/ Exec \/ ExecExit \/ Report

Spec == Init /\ [][Next]_vars
SpecLong == (InitVoices \/ InitLong) /\ [][Next]_vars

\* ===================================================== manifest properties
Min(a, b) == IF a <= b THEN a ELSE b
PairCount == Len(podData.set)
QuizCount == Min(PairCount, QUIZ_MAX)
DrillAt(k) == 2 + 7 * (k - 1)
QuizIntroAt == 2 + 7 * PairCount
QuizAt(b) == QuizIntroAt + 2 + 5 * (b - 1)

ManifestWritten == fileList # <<>>
Stitched == titlePath # UndefinedPath

audioFor(phrase) == <<synthesize(paramsOf(phrase, options, podData))>>
LearningAudio(k) == audioFor(<<FALSE, podData.set[k][1]>>)
FluentAudio(k) == audioFor(<<TRUE, podData.set[k][2]>>)

IsSilence(line) == line = <<"file", SilenceName>>
IsClipOf(line, audio) ==
  /\ line[1] = "file"
  /\ line[2] # SilenceName
  /\ line[2] \in DOMAIN scratch
  /\ scratch[line[2]] = audio

\* C1: the manifest is title, silence, N drill blocks of 7 entries (6 clips
\* and a closing silence), quiz intro, silence, min(N,7) quiz blocks of 5
\* entries, 4 + 7N + 5*min(N,7) entries in all; for an empty set it is
\* exactly title, silence, quiz intro, silence.
C1_ManifestLayout ==
  ManifestWritten =>
    /\ Len(fileList) = 4 + 7 * PairCount + 5 * QuizCount
    /\ IsClipOf(fileList[1], audioFor(<<TRUE, podData.title>>))
    /\ IsSilence(fileList[2])
    /\ \A k \in 1..PairCount : \A e \in 1..7 :
         IsSilence(fileList[DrillAt(k) + e]) <=> e = 7
    /\ IsClipOf(fileList[QuizIntroAt + 1], audioFor(<<TRUE, QUIZ_INTRO>>))
    /\ IsSilence(fileList[QuizIntroAt + 2])
    /\ \A b \in 1..QuizCount : \A e \in 1..5 :
         IsSilence(fileList[QuizAt(b) + e]) <=> e \in {2, 3, 5}
    /\ PairCount = 0 => Len(fileList) = 4

C1_Witness ==
  /\ pc = "done"
  /\ PairCount = QUIZ_MAX + 1
  /\ Len(fileList) = 4 + 7 * 8 + 5 * 7

\* C2: the k-th drill block is made from the k-th pair of the set, in input
\* order, as fluent, learning, learning, fluent, learning, learning,
\* silence; the drill portion names the pair's learning clip 4 times and
\* its fluent clip twice.
C2_DrillBlocks ==
  ManifestWritten =>
    \A k \in 1..PairCount :
      LET at == DrillAt(k)
          drill == (2 + 1)..(2 + 7 * PairCount)
      IN /\ IsClipOf(fileList[at + 1], FluentAudio(k))
         /\ IsClipOf(fileList[at + 2], LearningAudio(k))
         /\ IsClipOf(fileList[at + 3], LearningAudio(k))
         /\ IsClipOf(fileList[at + 4], FluentAudio(k))
         /\ IsClipOf(fileList[at + 5], LearningAudio(k))
         /\ IsClipOf(fileList[at + 6], LearningAudio(k))
         /\ IsSilence(fileList[at + 7])
         /\ Cardinality({e \in drill : fileList[e] = fileList[at + 2]}) = 4
         /\ Cardinality({e \in drill : fileList[e] = fileList[at + 1]}) = 2

C2_Witness ==
  /\ pc = "done"
  /\ PairCount >= 2
  /\ IsClipOf(fileList[DrillAt(2) + 1], FluentAudio(2))

\* C3: every quiz block is fluent, silence, silence, learning, silence of
\* one pair; no pair is used by two blocks; with at most 7 pairs every pair
\* has its block, with more than 7 there are exactly 7 blocks; whatever the
\* shuffle drew.
QuizBlockIs(b, p) ==
  /\ IsClipOf(fileList[QuizAt(b) + 1], FluentAudio(p))
  /\ IsSilence(fileList[QuizAt(b) + 2])
  /\ IsSilence(fileList[QuizAt(b) + 3])
  /\ IsClipOf(fileList[QuizAt(b) + 4], LearningAudio(p))
  /\ IsSilence(fileList[QuizAt(b) + 5])

\* the pair whose fluent clip opens quiz block b, 0 when there is none
QuizPairOf(b) ==
  LET line == fileList[QuizAt(b) + 1]
      from == {p \in 1..Len(clipPairs) : fileLine(pairAt(clipPairs[p], 2)) = line}
  IN IF from = {} THEN 0 ELSE CHOOSE p \in from : TRUE

C3_QuizBlocks ==
  ManifestWritten =>
    /\ Len(fileList) = QuizAt(QuizCount) + 5
    /\ LET used == [b \in 1..QuizCount |-> QuizPairOf(b)] IN
         /\ \A b \in 1..QuizCount :
              used[b] \in 1..PairCount /\ QuizBlockIs(b, used[b])
         /\ \A b1, b2 \in 1..QuizCount : used[b1] = used[b2] => b1 = b2
         /\ PairCount <= QUIZ_MAX =>
              {used[b] : b \in 1..QuizCount} = 1..PairCount
         /\ PairCount > QUIZ_MAX =>
              Cardinality({used[b] : b \in 1..QuizCount}) = 7

C3_Witness ==
  /\ pc = "done"
  /\ PairCount > QUIZ_MAX
  /\ QuizBlockIs(1, 8)
  /\ ~QuizBlockIs(2, 2)

\* C4: with the title and quiz-intro clips taken off the front, pair p
\* (0-based) is the clips at positions 2p+2 and 2p+3 (0-based) of the whole
\* clip list, the learning clip then the fluent clip of the p-th input
\* pair, and there are floor((len(phrases) - 2) / 2) pairs.
AllClipPaths == <<titlePath, quizPath>> \o clipPaths

FileOf(path) == scratch[lastSegment(path)]

C4_Pairing ==
  Stitched =>
    /\ Len(clipPairs) = (Len(phrases) - 2) \div 2
    /\ \A p \in 0..(Len(clipPairs) - 1) :
         /\ clipPairs[p + 1] =
              <<AllClipPaths[2 * p + 2 + 1], AllClipPaths[2 * p + 3 + 1]>>
         /\ FileOf(clipPairs[p + 1][1]) = LearningAudio(p + 1)
         /\ FileOf(clipPairs[p + 1][2]) = FluentAudio(p + 1)

C4_Witness ==
  /\ pc = "shuffle"
  /\ Len(AllClipPaths) = 6
  /\ clipPairs = << <<AllClipPaths[3], AllClipPaths[4]>>,
                    <<AllClipPaths[5], AllClipPaths[6]>> >>

\* ======================================================= speaker overrides
HostListName == hostKey(podFile.hostLang)

Joanna == <<"J","o","a","n","n","a">>

\* a name was given and the language's list does not hold it as typed
NotListed(name, lang) == Truthy(name) /\ ~includes(voicesOf(lang), name)

\* a name was given and the list does not hold what pascalCase makes of it
NotListedConverted(name, lang) ==
  Truthy(name) /\ ~includes(voicesOf(lang), pascalCase(name))

\* C5 as stated: a given speaker name that is not in its language's voice
\* list ends the run with a non-zero exit before any synthesis request.
C5_AsTypedStops ==
  (NotListed(argv.host, HostListName) \/ NotListed(argv.guest, podFile.lang))
    => sent = <<>>

\* C5: a given speaker name that, once converted by pascalCase, is not in
\* its language's voice list ends the run with exit code 1 before any
\* synthesis request is issued.
C5_ConvertedStops ==
  (NotListedConverted(argv.host, HostListName)
     \/ NotListedConverted(argv.guest, podFile.lang))
    => /\ sent = <<>>
       /\ requests = <<>>
       /\ pc \in {"start", "load", "validate", "exited", "error"}
       /\ exitCode \in {Running, 1}
       /\ pc \in {"exited", "error"} => exitCode = 1

C5_Witness ==
  /\ pc = "exited"
  /\ exitCode = 1
  /\ sent = <<>>
  /\ podFile.lang = "fr-FR" /\ argv.guest = Joanna
  /\ HostListName = "en-US" /\ argv.host = Joanna

\* ================================================================= pacing
\* C6: a pause comes immediately before entry i exactly when i mod 8 = 7:
\* before entries 7 and 15 and no other of the first 18.
C6_PauseBeforeIndex7 ==
  /\ \A k \in 1..Len(pauses) : pauses[k] = 8 * (k - 1) + 7
  /\ \A j \in 0..(Len(sent) - 1) :
       (j % 8 = 7) <=> (\E k \in 1..Len(pauses) : pauses[k] = j)
  /\ pc = "pause" =>
       /\ pauses[Len(pauses)] = Len(sent)
       /\ i = Len(sent)
       /\ i < Len(phrases)
  /\ \A k \in 1..Len(pauses) :
       /\ pauses[k] <= Len(sent)
       /\ pauses[k] = Len(sent) => pc \in {"pause", "error"}

C6_Witness == Len(sent) = 18 /\ pauses = <<7, 15>> /\ pc = "await"

\* C7 as stated: exactly 8 requests are out when the first pause begins and
\* exactly 8 more at every later pause.
C7_EightBeforeFirstPause == pc = "pause" => Len(sent) = 8 * Len(pauses)

\* C7: exactly 7 requests are out when the first pause begins and exactly 8
\* more at every later pause; a pause is always followed by a request; once
\* all are out there was one pause per 8 requests.
C7_SevenThenEights ==
  /\ pc = "pause" =>
       /\ Len(sent) = 8 * Len(pauses) - 1
       /\ Len(sent) < Len(phrases)
  /\ (phrases # <<>> /\ Len(sent) = Len(phrases)) =>
       Len(pauses) = Len(sent) \div 8

C7_Witness == pc = "pause" /\ Len(pauses) = 2 /\ Len(sent) = 15

\* ============================================================ concurrency
WrittenPaths == IF Stitched THEN AllClipPaths ELSE clipPaths

\* C8: whatever the order of the responses, promise k, clip k and the file
\* recorded at position k hold the audio of phrase entry k, one per entry.
C8_ClipsByIndex ==
  /\ \A k \in 1..Len(requests) :
       requests[k].state = "fulfilled" => requests[k].value = audioFor(phrases[k])
  /\ clips # <<>> =>
       /\ Len(clips) = Len(phrases)
       /\ \A k \in 1..Len(clips) : clips[k] = audioFor(phrases[k])
  /\ Len(WrittenPaths) <= Len(phrases)
  /\ Stitched => Len(WrittenPaths) = Len(phrases)
  /\ \A k \in 1..Len(WrittenPaths) :
       /\ FileOf(WrittenPaths[k]) = audioFor(phrases[k])
       /\ \A m \in 1..Len(WrittenPaths) : WrittenPaths[m] = WrittenPaths[k] => m = k

C8_Witness ==
  /\ pc = "done"
  /\ overtaken
  /\ Len(phrases) = 8
  /\ FileOf(AllClipPaths[8]) = audioFor(phrases[8])

\* C9: once a response came without audio the run can only end in an error:
\* no clip file, no manifest, no ffmpeg, no success message, and no entry is
\* requested a second time.
C9_FaultAborts ==
  faults > 0 =>
    /\ pc \in {"pause", "loop", "error"}
    /\ exitCode \in {Running, 1}
    /\ pc = "error" => exitCode = 1 /\ stderr = <<"No audio stream">>
    /\ DOMAIN scratch = {SilenceName}
    /\ clips = <<>> /\ clipPaths = <<>>
    /\ fileList = <<>> /\ listFile = UndefinedPath
    /\ execCalls = 0
    /\ \A m \in 1..Len(stdout) : stdout[m] # "saved"
    /\ Len(sent) <= Len(phrases)
    /\ \A k \in 1..Len(sent) : sent[k] = paramsOf(phrases[k], options, podData)

C9_Witness ==
  /\ pc = "error"
  /\ faults = 1
  /\ Len(pauses) = 1
  /\ Len(sent) = 8
  /\ requests[2].state = "rejected"
  /\ requests[1].state = "fulfilled"

\* =============================================================== pipeline
Pipeline ==
  <<"cleared", "loaded", "synthesized", "persisted", "manifest", "exec",
    "muxed", "reported">>

IsPrefix(s, t) == Len(s) <= Len(t) /\ s = SubSeq(t, 1, Len(s))

Said(out, msg) == \E m \in 1..Len(out) : out[m] = msg

\* C10: the steps happen in the order cleared, loaded, synthesized,
\* persisted, manifest, exec, reported; ffmpeg is started at most once and
\* only with every clip file and the manifest on disk; the output path is
\* reported only after ffmpeg exited with success, and a failed ffmpeg is
\* neither restarted nor followed by a report.
C10_PipelineOrder ==
  /\ \/ IsPrefix(trace, Pipeline)
     \/ trace = SubSeq(Pipeline, 1, 6) \o <<"mux failed">>
  /\ sent # <<>> => Len(trace) >= 2 /\ podData = podFile
  /\ Len(trace) >= 1 => (SilenceName \in DOMAIN scratch /\ StaleName \notin DOMAIN scratch)
  /\ Len(trace) >= 3 => (Len(clips) = Len(phrases) /\ Len(sent) = Len(phrases))
  /\ clipPaths # <<>> => Len(trace) >= 3
  /\ Len(trace) >= 4 =>
       /\ Len(AllClipPaths) = Len(phrases)
       /\ \A k \in 1..Len(AllClipPaths) : FileOf(AllClipPaths[k]) = clips[k]
  /\ ManifestWritten <=> Len(trace) >= 5
  /\ Len(trace) >= 5 => FileOf(listFile) = fileList
  /\ execCalls <= 1
  /\ execCalls = 1 <=> Len(trace) >= 6
  /\ Said(stdout, "saved") <=> trace = Pipeline
  /\ Said(stdout, "saved") => pc = "done" /\ exitCode = 0
  /\ Len(trace) = 7 /\ trace[7] = "mux failed" =>
       pc = "error" /\ exitCode = 1

C10_Witness == pc = "done" /\ trace = Pipeline /\ execCalls = 1

\* ====================================================== manifest and files
ManifestDir == SubSeq(listFile, 1, Len(listFile) - 1)

WrittenClipNames ==
  {lastSegment(AllClipPaths[k]) : k \in 1..Len(AllClipPaths)}

\* C11: when ffmpeg is started, the manifest lies in sound-temp and every
\* entry of it is the name of a file of sound-temp: a clip file written in
\* this run, or the silence file copied in after the directory was emptied.
C11_ManifestNamesScratchFiles ==
  pc = "ffmpeg" =>
    /\ ManifestDir = here(<<ScratchDir>>)
    /\ lastSegment(listFile) \in DOMAIN scratch
    /\ FileOf(listFile) = fileList
    /\ StaleName \notin DOMAIN scratch
    /\ \A e \in 1..Len(fileList) :
         /\ fileList[e][1] = "file"
         /\ fileList[e][2] \in DOMAIN scratch
         /\ IF IsSilence(fileList[e])
            THEN scratch[SilenceName] = <<"silence">>
            ELSE /\ fileList[e][2] \in WrittenClipNames
                 /\ \E k \in 1..Len(AllClipPaths) :
                      /\ AllClipPaths[k] =
                           here(<<ScratchDir, fileList[e][2]>>)
                      /\ scratch[fileList[e][2]] = clips[k]

C11_Witness ==
  /\ pc = "ffmpeg"
  /\ PairCount = 2
  /\ Len(fileList) = 28
  /\ IsSilence(fileList[2])
  /\ fileList[3][2] \in WrittenClipNames

\* ========================================================= request voices
Remi == <<"R","e","m","i">>

\* C12: every request sent carries the language of its phrase (the host
\* language, en-US when hostLang is absent, for host phrases; lang for
\* learning phrases) and a speaker of that language's voice list, whichever
\* overrides were given or left out; a guest override that is not in the
\* list never reaches synthesis, valid host override or not.
C12_SpeakerOfOwnLanguage ==
  /\ \A k \in 1..Len(sent) :
       /\ sent[k].LanguageCode =
            (IF phrases[k][1] THEN HostListName ELSE podFile.lang)
       /\ sent[k].LanguageCode \in DOMAIN POLLY_VOICES
       /\ includes(POLLY_VOICES[sent[k].LanguageCode], sent[k].VoiceId)
       /\ Truthy(argv.host) /\ phrases[k][1] =>
            sent[k].VoiceId = pascalCase(argv.host)
       /\ Truthy(argv.guest) /\ ~phrases[k][1] =>
            sent[k].VoiceId = pascalCase(argv.guest)
  /\ NotListedConverted(argv.guest, podFile.lang) => sent = <<>>

C12_Witness ==
  /\ Len(sent) = 4
  /\ HostListName = "en-US" /\ podFile.lang = "fr-FR"
  /\ argv.host = <<"j","o","a","n","n","a">> /\ argv.guest = Undefined
  /\ sent[1].VoiceId = Joanna /\ sent[1].LanguageCode = "en-US"
  /\ sent[3].VoiceId = Remi /\ sent[3].LanguageCode = "fr-FR"
====
